---- MODULE Spec2Model ----
(***************************************************************************)
(* Model of the helper application: the Guide table with its slug          *)
(* allocation in Guide.save, the view/like counters, the guide detail      *)
(* view and the related-guides query, the UserReview table with its        *)
(* submissions, moderation, list and helpful votes, and the                *)
(* ServiceRequest table with its submissions, updates and status.          *)
(*                                                                         *)
(* Every database statement (SELECT ... EXISTS, SELECT ... get, INSERT,    *)
(* UPDATE) is one atomic step; the Python between two statements works on  *)
(* the request's in-memory model instance and is folded into the step      *)
(* that precedes it.  Requests run in worker slots that interleave freely. *)
(***************************************************************************)
EXTENDS Integers, Sequences, FiniteSets, TLC

VARIABLES guides, reviews, service_requests, now, pc, op, arg, body, inst, review,
          service_request, base_slug, slug, counter, resp

vars == <<guides, reviews, service_requests, now, pc, op, arg, body, inst, review,
         service_request, base_slug, slug, counter, resp>>

(***************************************************************************)
(* Bounds                                                                  *)
(***************************************************************************)
MaxProcs == 2          \* worker slots handling requests concurrently
MaxClock == 2          \* Guide instantiations (creation attempts) of a concurrent run
MaxSeqClock == 3       \* Guide instantiations of a sequential run
MaxCount == 2          \* an increment is started only while the counter it reads is below this
MaxRelated == 5        \* rows of the tables the related-guides query is run on
MaxRequests == 2       \* rows of the ServiceRequest table
MaxItems == 2          \* elements of a submitted services_needed list
MaxReviews == 2        \* rows of the UserReview table of a run with submissions

Procs == 1..MaxProcs

(***************************************************************************)
(* Strings are sequences of one-character strings.                         *)
(***************************************************************************)
Titles == { <<"A">>, <<"A", "&", " ", "-", "B">>, <<" ", "&">> }
ExplicitSlugs == { <<"a", "-", "1">> }
Categories == { "housing", "healthcare" }

Empty == << >>

\* str.lower() on the characters the titles use
Lower(c) == CASE c = "A" -> "a" [] c = "B" -> "b" [] OTHER -> c

\* \w of the regular expressions of slugify, after lowering
IsWord(c) == c \in {"a", "b", "0", "1", "2", "3", "4", "5", "6", "7", "8", "9", "_"}

\* [-\s] of the regular expressions of slugify
IsSep(c) == c \in {" ", "-"}

\* re.sub(r'[^\w\s-]', '', value.lower())
DropOther(s) ==
    SelectSeq([i \in 1..Len(s) |-> Lower(s[i])], LAMBDA c : IsWord(c) \/ IsSep(c))

\* re.sub(r'[-\s]+', '-', value): every run of separators becomes one hyphen
RECURSIVE Collapse(_)
Collapse(s) ==
    IF s = Empty THEN Empty
    ELSE IF IsSep(Head(s))
         THEN IF Len(s) > 1 /\ IsSep(s[2])
              THEN Collapse(Tail(s))
              ELSE <<"-">> \o Collapse(Tail(s))
         ELSE <<Head(s)>> \o Collapse(Tail(s))

\* str.strip('-_')
RECURSIVE StripLeft(_)
StripLeft(s) ==
    IF s # Empty /\ Head(s) \in {"-", "_"} THEN StripLeft(Tail(s)) ELSE s

RECURSIVE StripRight(_)
StripRight(s) ==
    IF s # Empty /\ s[Len(s)] \in {"-", "_"}
    THEN StripRight(SubSeq(s, 1, Len(s) - 1))
    ELSE s

\* django.utils.text.slugify as Guide.save calls it
slugify(title) == StripRight(StripLeft(Collapse(DropOther(title))))

Digit == <<"0", "1", "2", "3", "4", "5", "6", "7", "8", "9">>

\* the decimal numeral the f-string writes for next(counter)
RECURSIVE Str(_)
Str(n) == IF n < 10 THEN <<Digit[n + 1]>> ELSE Str(n \div 10) \o <<Digit[(n % 10) + 1]>>

\* f'{base_slug}-{next(counter)}'
Suffixed(b, n) == b \o <<"-">> \o Str(n)

\* itertools.count(1)
CounterStartTwo == 1 + 1
CounterStart == 1

(***************************************************************************)
(* The Guide table.  guides[i] is the row with id i; rows are never        *)
(* deleted by the code under study.                                        *)
(***************************************************************************)
Ids == DOMAIN guides

\* Guide.objects.filter(slug=s).exists()
SlugExists(s) == \E i \in Ids : guides[i].slug = s

\* slug = models.SlugField(unique=True): the unique index rejects a row
\* whose slug another row already holds
UniqueOff(s, self) == FALSE
UniqueViolation(s, self) == \E i \in Ids : i # self /\ guides[i].slug = s

\* the fields of a Guide a request holds in memory; id 0 is an unsaved instance
NoInst == [id |-> 0, title |-> Empty, slug |-> Empty, category |-> "housing",
           is_published |-> FALSE, publication_date |-> 0,
           view_count |-> 0, likes |-> 0]

Row(o) == [title |-> o.title, slug |-> o.slug, category |-> o.category,
           is_published |-> o.is_published, publication_date |-> o.publication_date,
           view_count |-> o.view_count, likes |-> o.likes]

Load(i) == [id |-> i, title |-> guides[i].title, slug |-> guides[i].slug,
            category |-> guides[i].category, is_published |-> guides[i].is_published,
            publication_date |-> guides[i].publication_date,
            view_count |-> guides[i].view_count, likes |-> guides[i].likes]

\* the fields of a UserReview a request holds in memory
NoReview == [id |-> 0, is_approved |-> FALSE, is_featured |-> FALSE,
             is_verified |-> FALSE, helpful_votes |-> 0]

LoadReview(i) == [id |-> i, is_approved |-> reviews[i].is_approved,
                  is_featured |-> reviews[i].is_featured,
                  is_verified |-> reviews[i].is_verified,
                  helpful_votes |-> reviews[i].helpful_votes]

\* what a request ended with: the status, the guide and the counter of the
\* body, and the related guides of a detail payload or the rows of a list
NoResp == [status |-> "none", id |-> 0, count |-> 0, related |-> << >>]
NotFound == [status |-> "NotFound", id |-> 0, count |-> 0, related |-> << >>]
IntegrityError == [status |-> "IntegrityError", id |-> 0, count |-> 0, related |-> << >>]

\* what the request was called with: the slug of the URL or of the
\* constructor, the id of the URL
NoArg == [slug |-> Empty, id |-> 0]

\* request.data of a request that carries no fields
NoBody == [empty |-> TRUE]

\* the fields of a ServiceRequest a request holds in memory
NoServiceRequest == [id |-> 0, status |-> "none",
                     services_needed |-> [kind |-> "null", items |-> << >>]]

\* every worker slot waits for a request
Idle ==
    /\ pc = [p \in Procs |-> "idle"]
    /\ op = [p \in Procs |-> "none"]
    /\ arg = [p \in Procs |-> NoArg]
    /\ body = [p \in Procs |-> NoBody]
    /\ service_request = [p \in Procs |-> NoServiceRequest]
    /\ inst = [p \in Procs |-> NoInst]
    /\ review = [p \in Procs |-> NoReview]
    /\ base_slug = [p \in Procs |-> Empty]
    /\ slug = [p \in Procs |-> Empty]
    /\ counter = [p \in Procs |-> 0]
    /\ resp = [p \in Procs |-> NoResp]

Init ==
    /\ guides = << >>
    /\ reviews = << >>
    /\ service_requests = << >>
    /\ now = 0
    /\ Idle

\* a worker slot takes a request when it has answered the one before
Free(p) == pc[p] = "idle"

\* the request of slot p ends with response r; its instance and locals go
Respond(p, r) ==
    /\ resp' = [resp EXCEPT ![p] = r]
    /\ pc' = [pc EXCEPT ![p] = "idle"]
    /\ inst' = [inst EXCEPT ![p] = NoInst]
    /\ base_slug' = [base_slug EXCEPT ![p] = Empty]
    /\ slug' = [slug EXCEPT ![p] = Empty]
    /\ counter' = [counter EXCEPT ![p] = 0]

(***************************************************************************)
(* Guide.save, first part: "if not self.slug" with the set-up of the loop. *)
(* It touches no row, so it is taken together with the step that calls     *)
(* save.  counter[p] = 0 records that the allocation did not run.          *)
(***************************************************************************)
EnterSave(p, o) ==
    IF o.slug = Empty
    THEN /\ base_slug' = [base_slug EXCEPT ![p] = slugify(o.title)]
         /\ slug' = [slug EXCEPT ![p] = slugify(o.title)]
         /\ counter' = [counter EXCEPT ![p] = CounterStart]
         /\ pc' = [pc EXCEPT ![p] = "save_loop"]
    ELSE /\ base_slug' = [base_slug EXCEPT ![p] = Empty]
         /\ slug' = [slug EXCEPT ![p] = Empty]
         /\ counter' = [counter EXCEPT ![p] = 0]
         /\ pc' = [pc EXCEPT ![p] = "save_db"]

(***************************************************************************)
(* Guide.save, the loop: one EXISTS query per step.                        *)
(***************************************************************************)
SaveLoop(p) ==
    /\ pc[p] = "save_loop"
    /\ IF SlugExists(slug[p])
       THEN /\ slug' = [slug EXCEPT ![p] = Suffixed(base_slug[p], counter[p])]
            /\ counter' = [counter EXCEPT ![p] = @ + 1]
            /\ UNCHANGED <<inst, pc>>
       ELSE /\ inst' = [inst EXCEPT ![p].slug = slug[p]]
            /\ pc' = [pc EXCEPT ![p] = "save_db"]
            /\ UNCHANGED <<slug, counter>>
    /\ UNCHANGED <<guides, now, op, arg, base_slug, resp>>
    /\ UNCHANGED <<reviews, review, service_requests, service_request, body>>

Saved(i, n) == [status |-> "ok", id |-> i, count |-> n, related |-> << >>]

(***************************************************************************)
(* Guide.save, super().save() of a new instance: INSERT.                   *)
(***************************************************************************)
InsertGuide(p) ==
    /\ pc[p] = "save_db"
    /\ op[p] = "create"
    /\ IF UniqueViolation(inst[p].slug, 0)
       THEN /\ Respond(p, IntegrityError)
            /\ UNCHANGED guides
       ELSE /\ guides' = Append(guides, Row(inst[p]))
            /\ Respond(p, Saved(Len(guides) + 1, 0))
    /\ UNCHANGED <<now, op, arg>>
    /\ UNCHANGED <<reviews, review, service_requests, service_request, body>>

(***************************************************************************)
(* Guide.save, super().save() of a stored instance without update_fields:  *)
(* UPDATE of every column from the in-memory instance.                     *)
(***************************************************************************)
UpdateGuide(p) ==
    /\ pc[p] = "save_db"
    /\ op[p] = "edit"
    /\ IF UniqueViolation(inst[p].slug, inst[p].id)
       THEN /\ Respond(p, IntegrityError)
            /\ UNCHANGED guides
       ELSE /\ guides' = [guides EXCEPT ![inst[p].id] = Row(inst[p])]
            /\ Respond(p, Saved(inst[p].id, 0))
    /\ UNCHANGED <<now, op, arg>>
    /\ UNCHANGED <<reviews, review, service_requests, service_request, body>>

(***************************************************************************)
(* save(update_fields=['view_count']): UPDATE of that one column with the  *)
(* value the instance holds.  retrieve then goes on to the serializer.     *)
(***************************************************************************)
UpdateViewCount(p) ==
    /\ pc[p] = "save_db"
    /\ op[p] = "view"
    /\ guides' = [guides EXCEPT ![inst[p].id].view_count = inst[p].view_count]
    /\ pc' = [pc EXCEPT ![p] = "serialize"]
    /\ UNCHANGED <<now, op, arg, inst, base_slug, slug, counter, resp>>
    /\ UNCHANGED <<reviews, review, service_requests, service_request, body>>

(***************************************************************************)
(* save(update_fields=['likes']) and the response of like_guide,           *)
(* {'likes': guide.likes}.                                                 *)
(***************************************************************************)
UpdateLikesWholeRow(p) ==
    /\ pc[p] = "save_db"
    /\ op[p] = "like"
    /\ guides' = [guides EXCEPT ![inst[p].id] = Row(inst[p])]
    /\ Respond(p, Saved(inst[p].id, inst[p].likes))
    /\ UNCHANGED <<now, op, arg>>
    /\ UNCHANGED <<reviews, review, service_requests, service_request, body>>
UpdateLikes(p) ==
    /\ pc[p] = "save_db"
    /\ op[p] = "like"
    /\ guides' = [guides EXCEPT ![inst[p].id].likes = inst[p].likes]
    /\ Respond(p, Saved(inst[p].id, inst[p].likes))
    /\ UNCHANGED <<now, op, arg>>
    /\ UNCHANGED <<reviews, review, service_requests, service_request, body>>

(***************************************************************************)
(* Creation: Guide(title=t, slug=s, category=c).save().  s = Empty is a    *)
(* creation without a slug (the admin form, where slug is read-only).      *)
(* publication_date defaults to timezone.now, is_published to True.        *)
(***************************************************************************)
NewGuide(t, s, c, d) ==
    [id |-> 0, title |-> t, slug |-> s, category |-> c, is_published |-> TRUE,
     publication_date |-> d, view_count |-> 0, likes |-> 0]

CreateGuide(p, t, s, c) ==
    /\ Free(p)
    /\ now' = now + 1
    /\ op' = [op EXCEPT ![p] = "create"]
    /\ arg' = [arg EXCEPT ![p] = [slug |-> s, id |-> 0]]
    /\ inst' = [inst EXCEPT ![p] = NewGuide(t, s, c, now + 1)]
    /\ resp' = [resp EXCEPT ![p] = NoResp]
    /\ EnterSave(p, inst'[p])
    /\ UNCHANGED guides
    /\ UNCHANGED <<reviews, review, service_requests, service_request, body>>

(***************************************************************************)
(* GuideAdmin change form of guide i: the title and is_published are       *)
(* edited, slug is read-only, then the instance is saved whole.            *)
(***************************************************************************)
EditGuide(p, i, t, pub) ==
    /\ Free(p)
    /\ i \in Ids
    /\ op' = [op EXCEPT ![p] = "edit"]
    /\ arg' = [arg EXCEPT ![p] = [slug |-> Empty, id |-> i]]
    /\ inst' = [inst EXCEPT ![p] = [Load(i) EXCEPT !.title = t, !.is_published = pub]]
    /\ resp' = [resp EXCEPT ![p] = NoResp]
    /\ EnterSave(p, inst'[p])
    /\ UNCHANGED <<guides, now>>
    /\ UNCHANGED <<reviews, review, service_requests, service_request, body>>

(***************************************************************************)
(* HelpfulGuideDetailView.retrieve: get_object over the published guides,  *)
(* then increment_view_count up to its save.                               *)
(***************************************************************************)
PublishedAll(i) == TRUE
Published(i) == guides[i].is_published

\* get_queryset().get(slug=s): the rows get_object chooses from
DetailMatches(s) == { i \in Ids : Published(i) /\ guides[i].slug = s }

RetrieveGuide(p, s) ==
    /\ Free(p)
    /\ \E i \in DetailMatches(s) :
          /\ guides[i].view_count < MaxCount
          /\ inst' = [inst EXCEPT ![p] = [Load(i) EXCEPT !.view_count = @ + 1]]
          /\ EnterSave(p, inst'[p])
    /\ op' = [op EXCEPT ![p] = "view"]
    /\ arg' = [arg EXCEPT ![p] = [slug |-> s, id |-> 0]]
    /\ resp' = [resp EXCEPT ![p] = NoResp]
    /\ UNCHANGED <<guides, now>>
    /\ UNCHANGED <<reviews, review, service_requests, service_request, body>>

\* get_object raises Http404
RetrieveNotFound(p, s) ==
    /\ Free(p)
    /\ DetailMatches(s) = {}
    /\ op' = [op EXCEPT ![p] = "view"]
    /\ arg' = [arg EXCEPT ![p] = [slug |-> s, id |-> 0]]
    /\ Respond(p, NotFound)
    /\ UNCHANGED <<guides, now>>
    /\ UNCHANGED <<reviews, review, service_requests, service_request, body>>

(***************************************************************************)
(* HelpfulGuideDetailSerializer.get_related_guides: the published guides   *)
(* of the category without the guide itself, in the default ordering       *)
(* (-publication_date, equal dates by id), cut to the first three.         *)
(***************************************************************************)
RelatedLimit == 3

QualifiesSelf(obj, i) ==
    /\ guides[i].category = obj.category
    /\ guides[i].is_published
Qualifies(obj, i) ==
    /\ guides[i].category = obj.category
    /\ guides[i].is_published
    /\ i # obj.id

\* Meta.ordering = ['-publication_date']
Before(i, j) ==
    \/ guides[i].publication_date > guides[j].publication_date
    \/ guides[i].publication_date = guides[j].publication_date /\ i < j

RECURSIVE Ordered(_)
Ordered(S) ==
    IF S = {} THEN << >>
    ELSE LET first == CHOOSE i \in S : \A j \in S \ {i} : Before(i, j)
         IN  <<first>> \o Ordered(S \ {first})

\* queryset[:n]
Slice(q, n) == SubSeq(q, 1, IF Len(q) < n THEN Len(q) ELSE n)

get_related_guides(obj) ==
    Slice(Ordered({ i \in Ids : Qualifies(obj, i) }), RelatedLimit)

\* serializer.data and the Response of retrieve
SerializeGuide(p) ==
    /\ pc[p] = "serialize"
    /\ Respond(p, [status |-> "ok", id |-> inst[p].id, count |-> inst[p].view_count,
                   related |-> get_related_guides(inst[p])])
    /\ UNCHANGED <<guides, now, op, arg>>
    /\ UNCHANGED <<reviews, review, service_requests, service_request, body>>

(***************************************************************************)
(* like_guide: get(id=guide_id, is_published=True), likes += 1, save.      *)
(***************************************************************************)
LikeGuide(p, i) ==
    /\ Free(p)
    /\ i \in Ids
    /\ guides[i].is_published
    /\ guides[i].likes < MaxCount
    /\ op' = [op EXCEPT ![p] = "like"]
    /\ arg' = [arg EXCEPT ![p] = [slug |-> Empty, id |-> i]]
    /\ inst' = [inst EXCEPT ![p] = [Load(i) EXCEPT !.likes = @ + 1]]
    /\ resp' = [resp EXCEPT ![p] = NoResp]
    /\ EnterSave(p, inst'[p])
    /\ UNCHANGED <<guides, now>>
    /\ UNCHANGED <<reviews, review, service_requests, service_request, body>>

\* HelpfulGuide.DoesNotExist
LikeNotFound(p, i) ==
    /\ Free(p)
    /\ ~(i \in Ids /\ guides[i].is_published)
    /\ op' = [op EXCEPT ![p] = "like"]
    /\ arg' = [arg EXCEPT ![p] = [slug |-> Empty, id |-> i]]
    /\ Respond(p, NotFound)
    /\ UNCHANGED <<guides, now>>
    /\ UNCHANGED <<reviews, review, service_requests, service_request, body>>

(***************************************************************************)
(* helpful_review: get(id=review_id, is_approved=True), helpful_votes += 1 *)
(* on the instance, then save(update_fields=['helpful_votes']) and the     *)
(* response {'helpful_votes': review.helpful_votes}.                       *)
(***************************************************************************)
HelpfulReview(p, i) ==
    /\ Free(p)
    /\ i \in DOMAIN reviews
    /\ reviews[i].is_approved
    /\ reviews[i].helpful_votes < MaxCount
    /\ op' = [op EXCEPT ![p] = "helpful"]
    /\ arg' = [arg EXCEPT ![p] = [slug |-> Empty, id |-> i]]
    /\ review' = [review EXCEPT ![p] = [LoadReview(i) EXCEPT !.helpful_votes = @ + 1]]
    /\ resp' = [resp EXCEPT ![p] = NoResp]
    /\ pc' = [pc EXCEPT ![p] = "review_db"]
    /\ UNCHANGED <<guides, reviews, now, inst, base_slug, slug, counter>>
    /\ UNCHANGED <<service_requests, service_request, body>>

UpdateHelpfulVotes(p) ==
    /\ pc[p] = "review_db"
    /\ reviews' = [reviews EXCEPT ![review[p].id].helpful_votes = review[p].helpful_votes]
    /\ review' = [review EXCEPT ![p] = NoReview]
    /\ Respond(p, Saved(review[p].id, review[p].helpful_votes))
    /\ UNCHANGED <<guides, now, op, arg>>
    /\ UNCHANGED <<service_requests, service_request, body>>

\* UserReview.DoesNotExist
HelpfulNotFound(p, i) ==
    /\ Free(p)
    /\ ~(i \in DOMAIN reviews /\ reviews[i].is_approved)
    /\ op' = [op EXCEPT ![p] = "helpful"]
    /\ arg' = [arg EXCEPT ![p] = [slug |-> Empty, id |-> i]]
    /\ Respond(p, NotFound)
    /\ UNCHANGED <<guides, reviews, now, review>>
    /\ UNCHANGED <<service_requests, service_request, body>>

(***************************************************************************)
(* The ServiceRequest table.  service_requests[i] is the row with id i,    *)
(* with its services_needed and status columns.  A JSON value is a list    *)
(* of elements, an object, a string or null; an element of a list is an    *)
(* object with its set of keys, or a string.                               *)
(***************************************************************************)
Statuses == { "pending", "in_progress", "completed", "cancelled" }

\* status = models.CharField(..., default='pending')
DefaultStatus == "pending"

Object(keys) == [kind |-> "dict", keys |-> keys]
String == [kind |-> "str", keys |-> {}]

Elements == { Object({"name", "price"}), Object({"name"}), Object({"price", "note"}), String }

List(items) == [kind |-> "list", items |-> items]
Null == [kind |-> "null", items |-> << >>]

\* the values a submission carries as services_needed: the lists of up to
\* MaxItems elements, one object, one string, and null
JsonValues ==
    { List(items) : items \in UNION { [1..n -> Elements] : n \in 0..MaxItems } }
       \cup { [kind |-> "dict", items |-> << >>], [kind |-> "str", items |-> << >>], Null }

\* isinstance(service, dict) and 'name' in service and 'price' in service
NameOnly(service) ==
    /\ service.kind = "dict"
    /\ "name" \in service.keys
IsService(service) ==
    /\ service.kind = "dict"
    /\ "name" \in service.keys
    /\ "price" \in service.keys

\* the loop of validate_services_needed: TRUE when it raises
RECURSIVE Raises(_)
Raises(value) ==
    IF value = << >> THEN FALSE
    ELSE IF ~IsService(Head(value)) THEN TRUE
    ELSE Raises(Tail(value))

\* ServiceRequestSerializer.validate_services_needed: TRUE when it returns
\* the value, FALSE when it raises the ValidationError
validate_services_needed(value) ==
    IF value.kind # "list" THEN FALSE
    ELSE ~Raises(value.items)

\* services_needed = models.JSONField(...) without null=True: the field of
\* the serializer rejects null before the validate_ method is called
is_valid(data) ==
    /\ data.services_needed # Null
    /\ validate_services_needed(data.services_needed)

ValidationError == [status |-> "ValidationError", id |-> 0, count |-> 0, related |-> << >>]

\* request.data of a request to the service request endpoints: status is
\* "absent" when the body has no such key
ServiceBody(v, st) == [status |-> st, services_needed |-> v]

\* serializer.save() of a creation: status is read-only in the serializer
\* and so never part of validated_data; the row gets the default
NewServiceRequest(data) ==
    [status |-> DefaultStatus, services_needed |-> data.services_needed]

LoadServiceRequest(i) ==
    [id |-> i, status |-> service_requests[i].status,
     services_needed |-> service_requests[i].services_needed]

(***************************************************************************)
(* ServiceRequestCreateView: is_valid(raise_exception=True), then          *)
(* perform_create with the INSERT, in one step.                            *)
(***************************************************************************)
CreateServiceRequest(p, data) ==
    /\ Free(p)
    /\ Len(service_requests) < MaxRequests
    /\ op' = [op EXCEPT ![p] = "submit"]
    /\ arg' = [arg EXCEPT ![p] = NoArg]
    /\ body' = [body EXCEPT ![p] = data]
    /\ IF is_valid(data)
       THEN /\ service_requests' = Append(service_requests, NewServiceRequest(data))
            /\ Respond(p, Saved(Len(service_requests) + 1, 0))
       ELSE /\ Respond(p, ValidationError)
            /\ UNCHANGED service_requests
    /\ UNCHANGED <<guides, reviews, now, review, service_request>>

(***************************************************************************)
(* ServiceRequestDetailView, PUT and PATCH: get_object, is_valid, then     *)
(* serializer.save(), which sets the validated fields on the instance it   *)
(* loaded; status is read-only and stays what was loaded.                  *)
(***************************************************************************)
UpdateServiceRequest(p, i, data) ==
    /\ Free(p)
    /\ i \in DOMAIN service_requests
    /\ op' = [op EXCEPT ![p] = "update"]
    /\ arg' = [arg EXCEPT ![p] = [slug |-> Empty, id |-> i]]
    /\ body' = [body EXCEPT ![p] = data]
    /\ IF is_valid(data)
       THEN /\ service_request' = [service_request EXCEPT ![p] =
                  [LoadServiceRequest(i) EXCEPT !.services_needed = data.services_needed]]
            /\ pc' = [pc EXCEPT ![p] = "request_db"]
            /\ resp' = [resp EXCEPT ![p] = NoResp]
            /\ UNCHANGED <<inst, base_slug, slug, counter>>
       ELSE /\ Respond(p, ValidationError)
            /\ UNCHANGED service_request
    /\ UNCHANGED <<guides, reviews, service_requests, now, review>>

\* get_object raises Http404
UpdateNotFound(p, i, data) ==
    /\ Free(p)
    /\ i \notin DOMAIN service_requests
    /\ op' = [op EXCEPT ![p] = "update"]
    /\ arg' = [arg EXCEPT ![p] = [slug |-> Empty, id |-> i]]
    /\ body' = [body EXCEPT ![p] = data]
    /\ Respond(p, NotFound)
    /\ UNCHANGED <<guides, reviews, service_requests, now, review, service_request>>

(***************************************************************************)
(* The admin change form of ServiceRequest i, registered with the default  *)
(* ModelAdmin: every column is editable, status is a select over its four  *)
(* choices.  The form is posted with another status and the row as shown.  *)
(***************************************************************************)
ChangeServiceRequest(p, i, st) ==
    /\ Free(p)
    /\ i \in DOMAIN service_requests
    /\ op' = [op EXCEPT ![p] = "admin"]
    /\ arg' = [arg EXCEPT ![p] = [slug |-> Empty, id |-> i]]
    /\ body' = [body EXCEPT ![p] = ServiceBody(service_requests[i].services_needed, st)]
    /\ service_request' = [service_request EXCEPT ![p] =
          [LoadServiceRequest(i) EXCEPT !.status = st]]
    /\ pc' = [pc EXCEPT ![p] = "request_db"]
    /\ resp' = [resp EXCEPT ![p] = NoResp]
    /\ UNCHANGED <<guides, reviews, service_requests, now, review>>
    /\ UNCHANGED <<inst, base_slug, slug, counter>>

\* instance.save() without update_fields: UPDATE of every column
SaveServiceRequest(p) ==
    /\ pc[p] = "request_db"
    /\ service_requests' = [service_requests EXCEPT ![service_request[p].id] =
          [status |-> service_request[p].status,
           services_needed |-> service_request[p].services_needed]]
    /\ service_request' = [service_request EXCEPT ![p] = NoServiceRequest]
    /\ Respond(p, Saved(service_request[p].id, 0))
    /\ UNCHANGED <<guides, reviews, now, op, arg, body, review>>

(***************************************************************************)
(* UserReviewCreateView with UserReviewCreateSerializer.  The body of a    *)
(* submission may carry any key; of the columns the model keeps here it    *)
(* carries the three moderation flags, next to the rating.                 *)
(***************************************************************************)
Ratings == { 0, 1, 5, 6 }

ReviewBodies ==
    [is_approved : BOOLEAN, is_featured : BOOLEAN, is_verified : BOOLEAN, rating : Ratings]

\* Meta.fields of UserReviewCreateSerializer
CreateFieldsFlags ==
    { "reviewer_name", "reviewer_email", "reviewer_country", "title", "content",
      "rating", "service_used", "is_approved", "is_featured", "is_verified" }
CreateFields ==
    { "reviewer_name", "reviewer_email", "reviewer_country", "title", "content",
      "rating", "service_used" }

\* validate_rating: TRUE when it returns the value
validate_rating(value) == ~(value < 1 \/ value > 5)

\* a column of the new row: the value of the body if the serializer has a
\* field of that name, the default of the model otherwise
Column(data, name, default) == IF name \in CreateFields THEN data[name] ELSE default

\* serializer.save(): UserReview.objects.create(**validated_data)
NewReview(data) ==
    [is_approved |-> Column(data, "is_approved", FALSE),
     is_featured |-> Column(data, "is_featured", FALSE),
     is_verified |-> Column(data, "is_verified", FALSE),
     helpful_votes |-> 0]

CreateReview(p, data) ==
    /\ Free(p)
    /\ Len(reviews) < MaxReviews
    /\ op' = [op EXCEPT ![p] = "review"]
    /\ arg' = [arg EXCEPT ![p] = NoArg]
    /\ body' = [body EXCEPT ![p] = data]
    /\ IF validate_rating(data.rating)
       THEN /\ reviews' = Append(reviews, NewReview(data))
            /\ Respond(p, Saved(Len(reviews) + 1, 0))
       ELSE /\ Respond(p, ValidationError)
            /\ UNCHANGED reviews
    /\ UNCHANGED <<guides, service_requests, now, review, service_request>>

(***************************************************************************)
(* The admin change form of UserReview i, registered with the default      *)
(* ModelAdmin: the administration approves the review or withdraws the     *)
(* approval, and the instance is saved whole.                              *)
(***************************************************************************)
ModerateReview(p, i, approved) ==
    /\ Free(p)
    /\ i \in DOMAIN reviews
    /\ op' = [op EXCEPT ![p] = "moderate"]
    /\ arg' = [arg EXCEPT ![p] = [slug |-> Empty, id |-> i]]
    /\ review' = [review EXCEPT ![p] = [LoadReview(i) EXCEPT !.is_approved = approved]]
    /\ pc' = [pc EXCEPT ![p] = "review_save"]
    /\ resp' = [resp EXCEPT ![p] = NoResp]
    /\ UNCHANGED <<guides, reviews, now, inst, base_slug, slug, counter>>
    /\ UNCHANGED <<service_requests, service_request, body>>

SaveReview(p) ==
    /\ pc[p] = "review_save"
    /\ reviews' = [reviews EXCEPT ![review[p].id] =
          [is_approved |-> review[p].is_approved, is_featured |-> review[p].is_featured,
           is_verified |-> review[p].is_verified, helpful_votes |-> review[p].helpful_votes]]
    /\ review' = [review EXCEPT ![p] = NoReview]
    /\ Respond(p, Saved(review[p].id, 0))
    /\ UNCHANGED <<guides, now, op, arg>>
    /\ UNCHANGED <<service_requests, service_request, body>>

(***************************************************************************)
(* UserReviewListView: the approved reviews, newest first (ordering        *)
(* -created_at, the ids descending).  The response carries their ids.      *)
(***************************************************************************)
RECURSIVE Descending(_)
Descending(S) ==
    IF S = {} THEN << >>
    ELSE LET last == CHOOSE i \in S : \A j \in S : j <= i
         IN  <<last>> \o Descending(S \ {last})

\* get_queryset of UserReviewListView
ApprovedReviews == { i \in DOMAIN reviews : reviews[i].is_approved }

ListReviews(p) ==
    /\ Free(p)
    /\ op' = [op EXCEPT ![p] = "list"]
    /\ arg' = [arg EXCEPT ![p] = NoArg]
    /\ Respond(p, [status |-> "ok", id |-> 0, count |-> Cardinality(ApprovedReviews),
                   related |-> Descending(ApprovedReviews)])
    /\ UNCHANGED <<guides, reviews, now, review>>
    /\ UNCHANGED <<service_requests, service_request, body>>

\* the slugs and ids requests come with
RequestSlugs == { <<"a">>, <<"a", "-", "1">>, <<"z">> }
RequestIds == 1..MaxClock

(***************************************************************************)
(* The write path of the catalogue: guides of one category are created     *)
(* and their titles edited in every worker slot, from the empty table.     *)
(***************************************************************************)
Next ==
    \E p \in Procs :
       \/ /\ now < MaxClock
          /\ \E t \in Titles, s \in ExplicitSlugs \cup {Empty} :
                CreateGuide(p, t, s, "housing")
       \/ \E i \in RequestIds, t \in Titles : EditGuide(p, i, t, TRUE)
       \/ SaveLoop(p)
       \/ InsertGuide(p)
       \/ UpdateGuide(p)

Spec == Init /\ [][Next]_vars

(***************************************************************************)
(* Concurrent creation alone.                                              *)
(***************************************************************************)
NextCreate ==
    \E p \in Procs :
       \/ /\ now < MaxClock
          /\ \E t \in Titles, s \in ExplicitSlugs \cup {Empty}, c \in Categories :
                CreateGuide(p, t, s, c)
       \/ SaveLoop(p)
       \/ InsertGuide(p)

SpecCreate == Init /\ [][NextCreate]_vars

(***************************************************************************)
(* Guides created one after another by a single slot.                      *)
(***************************************************************************)
NextSeq ==
    \/ /\ now < MaxSeqClock
       /\ \E t \in Titles, s \in ExplicitSlugs \cup {Empty}, c \in Categories :
             CreateGuide(1, t, s, c)
    \/ SaveLoop(1)
    \/ InsertGuide(1)

SpecSeq == Init /\ [][NextSeq]_vars

(***************************************************************************)
(* One slot that creates guides, publishes and unpublishes them and        *)
(* serves detail views, one request after another.                         *)
(***************************************************************************)
NextDetail ==
    \/ /\ now < MaxClock
       /\ \E t \in Titles, s \in ExplicitSlugs \cup {Empty} :
             CreateGuide(1, t, s, "housing")
    \/ \E i \in RequestIds, pub \in BOOLEAN : EditGuide(1, i, guides[i].title, pub)
    \/ \E s \in RequestSlugs : RetrieveGuide(1, s)
    \/ \E s \in RequestSlugs : RetrieveNotFound(1, s)
    \/ SaveLoop(1)
    \/ InsertGuide(1)
    \/ UpdateGuide(1)
    \/ UpdateViewCount(1)
    \/ SerializeGuide(1)

SpecDetail == Init /\ [][NextDetail]_vars

(***************************************************************************)
(* The counters: detail views, likes and helpful votes in every worker     *)
(* slot, over a stored catalogue of two guides, the second one stored      *)
(* with the empty slug that a title without letters or digits gets, and    *)
(* one stored review.                                                      *)
(***************************************************************************)
Stored(t, s, d) ==
    [title : {t}, slug : {s}, category : {"housing"}, is_published : BOOLEAN,
     publication_date : {d}, view_count : {0}, likes : {0}]

Catalogues ==
    { <<r1, r2>> : r1 \in Stored(<<"A">>, <<"a">>, 1), r2 \in Stored(<<" ", "&">>, Empty, 2) }

\* one review, submitted and then approved or not by the administration
StoredReviews ==
    { <<r>> : r \in [is_approved : BOOLEAN, is_featured : {FALSE}, is_verified : {FALSE},
                      helpful_votes : {0}] }

InitCount ==
    /\ guides \in Catalogues
    /\ reviews \in StoredReviews
    /\ service_requests = << >>
    /\ now = 2
    /\ Idle

NextCount ==
    \E p \in Procs :
       \/ \E s \in RequestSlugs : RetrieveGuide(p, s)
       \/ \E s \in RequestSlugs : RetrieveNotFound(p, s)
       \/ \E i \in RequestIds : LikeGuide(p, i)
       \/ \E i \in RequestIds : LikeNotFound(p, i)
       \/ \E i \in RequestIds : HelpfulReview(p, i)
       \/ \E i \in RequestIds : HelpfulNotFound(p, i)
       \/ SaveLoop(p)
       \/ UpdateViewCount(p)
       \/ SerializeGuide(p)
       \/ UpdateLikes(p)
       \/ UpdateHelpfulVotes(p)

SpecCount == InitCount /\ [][NextCount]_vars

(***************************************************************************)
(* The related-guides query of a detail view that has written its          *)
(* view_count, over the tables that creating the title "A" again and       *)
(* again and then recategorising, unpublishing and redating the guides     *)
(* in the admin leaves.                                                    *)
(***************************************************************************)
NthSlug(i) == IF i = 1 THEN <<"a">> ELSE Suffixed(<<"a">>, i - 1)

\* n guides; f gives each its category and is_published, up the order of
\* the publication dates, v the guide whose view was just counted
RelatedTable(n, f, up, v) ==
    [i \in 1..n |->
        [title |-> <<"A">>, slug |-> NthSlug(i), category |-> f[i][1],
         is_published |-> f[i][2],
         publication_date |-> IF up THEN i ELSE n + 1 - i,
         view_count |-> IF i = v THEN 1 ELSE 0, likes |-> 0]]

InitRelated ==
    /\ \E n \in 1..MaxRelated, up \in BOOLEAN :
          \E f \in [1..n -> Categories \X BOOLEAN], v \in 1..n :
             /\ f[v][2]
             /\ guides = RelatedTable(n, f, up, v)
             /\ now = n
             /\ pc = [p \in Procs |-> IF p = 1 THEN "serialize" ELSE "idle"]
             /\ op = [p \in Procs |-> IF p = 1 THEN "view" ELSE "none"]
             /\ arg = [p \in Procs |->
                         IF p = 1 THEN [slug |-> NthSlug(v), id |-> 0] ELSE NoArg]
             /\ inst = [p \in Procs |->
                          IF p = 1
                          THEN [id |-> v, title |-> <<"A">>, slug |-> NthSlug(v),
                                category |-> f[v][1], is_published |-> TRUE,
                                publication_date |-> IF up THEN v ELSE n + 1 - v,
                                view_count |-> 1, likes |-> 0]
                          ELSE NoInst]
    /\ reviews = << >>
    /\ review = [p \in Procs |-> NoReview]
    /\ service_requests = << >>
    /\ service_request = [p \in Procs |-> NoServiceRequest]
    /\ body = [p \in Procs |-> NoBody]
    /\ base_slug = [p \in Procs |-> Empty]
    /\ slug = [p \in Procs |-> Empty]
    /\ counter = [p \in Procs |-> 0]
    /\ resp = [p \in Procs |-> NoResp]

NextRelated == SerializeGuide(1)

SpecRelated == InitRelated /\ [][NextRelated]_vars

(***************************************************************************)
(* Service requests: submissions, updates through the detail endpoint and  *)
(* status changes in the admin, in every worker slot.                      *)
(***************************************************************************)
RequestBodies ==
    { ServiceBody(List(<<Object({"name", "price"})>>), "completed"),
      ServiceBody(List(<<Object({"name"})>>), "absent") }

NextRequest ==
    \E p \in Procs :
       \/ \E data \in RequestBodies : CreateServiceRequest(p, data)
       \/ \E i \in RequestIds, data \in RequestBodies : UpdateServiceRequest(p, i, data)
       \/ \E i \in RequestIds, data \in RequestBodies : UpdateNotFound(p, i, data)
       \/ \E i \in RequestIds, st \in Statuses : ChangeServiceRequest(p, i, st)
       \/ SaveServiceRequest(p)

SpecRequest == Init /\ [][NextRequest]_vars

(***************************************************************************)
(* Submissions of service requests with every services_needed value, one   *)
(* after another.                                                          *)
(***************************************************************************)
NextSubmit ==
    \E v \in JsonValues, st \in {"absent", "completed"} :
       CreateServiceRequest(1, ServiceBody(v, st))

SpecSubmit == Init /\ [][NextSubmit]_vars

(***************************************************************************)
(* Reviews: submissions, moderation in the admin and the public list, one  *)
(* request after another.                                                  *)
(***************************************************************************)
NextReview ==
    \/ \E data \in ReviewBodies : CreateReview(1, data)
    \/ \E i \in RequestIds, approved \in BOOLEAN : ModerateReview(1, i, approved)
    \/ SaveReview(1)
    \/ ListReviews(1)

SpecReview == Init /\ [][NextReview]_vars

(***************************************************************************)
(* A slot serving detail views next to a slot serving likes, over the      *)
(* stored catalogue of the counters.                                       *)
(***************************************************************************)
NextFrame ==
    \/ \E s \in RequestSlugs : RetrieveGuide(1, s)
    \/ \E s \in RequestSlugs : RetrieveNotFound(1, s)
    \/ UpdateViewCount(1)
    \/ SerializeGuide(1)
    \/ \E i \in RequestIds : LikeGuide(2, i)
    \/ \E i \in RequestIds : LikeNotFound(2, i)
    \/ SaveLoop(2)
    \/ UpdateLikes(2)

SpecFrame == InitCount /\ [][NextFrame]_vars

(***************************************************************************)
(* Properties                                                              *)
(***************************************************************************)

\* the candidate Guide.save reaches after n passes of its loop
Candidate(b, n) == IF n = 0 THEN b ELSE Suffixed(b, n)

\* the step is slot p taking a request
Began(p) ==
    /\ pc[p] = "idle"
    /\ <<pc'[p], op'[p], arg'[p], resp'[p]>> # <<pc[p], op[p], arg[p], resp[p]>>

\* C1: no two stored guides share a slug, also when creations with equal
\* titles and no slug interleave between the existence check and the insert
C1_SlugsDistinct ==
    \A i, j \in Ids : i # j => guides[i].slug # guides[j].slug

\* two creations of one title, neither given a slug, are both about to
\* insert the candidate each of them found unused
C1_Race ==
    \E p, q \in Procs :
       /\ p # q
       /\ pc[p] = "save_db" /\ pc[q] = "save_db"
       /\ op[p] = "create" /\ op[q] = "create"
       /\ arg[p].slug = Empty /\ arg[q].slug = Empty
       /\ inst[p].title = inst[q].title
       /\ inst[p].slug = inst[q].slug

\* C3: a creation that follows the one before it stores the base token if
\* no guide holds it, and otherwise the base token with the smallest
\* suffix -n, n = 1, 2, ..., that no guide holds
C3_SmallestUnused ==
    [][ (/\ pc[1] = "save_db"
         /\ pc'[1] = "idle"
         /\ op[1] = "create"
         /\ arg[1].slug = Empty)
        => /\ Len(guides') = Len(guides) + 1
           /\ \E n \in 0..Len(guides) :
                 /\ guides'[Len(guides')].slug = Candidate(slugify(inst[1].title), n)
                 /\ \A k \in 0..(n - 1) :
                       \E i \in Ids : guides[i].slug = Candidate(slugify(inst[1].title), k)
                 /\ \A i \in Ids : guides[i].slug # Candidate(slugify(inst[1].title), n)
      ]_vars

\* the title "A" created three times: a, a-1, a-2
C3_Series ==
    /\ Len(guides) = 3
    /\ \A i \in Ids : guides[i].title = <<"A">>
    /\ guides[1].slug = <<"a">>
    /\ guides[2].slug = <<"a", "-", "1">>
    /\ guides[3].slug = <<"a", "-", "2">>

\* C2: no counter increment is lost: two requests of one kind on one record
\* that both started from the stored value N, and so both answered N + 1,
\* leave at least N + 2 stored; for view_count, likes and helpful_votes
StoredCount(kind, i) ==
    CASE kind = "view" -> guides[i].view_count
      [] kind = "like" -> guides[i].likes
      [] kind = "helpful" -> reviews[i].helpful_votes

C2_NoLostIncrement ==
    \A p, q \in Procs :
       (/\ p # q
        /\ pc[p] = "idle" /\ pc[q] = "idle"
        /\ op[p] = op[q]
        /\ op[p] \in {"view", "like", "helpful"}
        /\ resp[p].status = "ok" /\ resp[q].status = "ok"
        /\ resp[p].id = resp[q].id
        /\ resp[p].count = resp[q].count)
       => StoredCount(op[p], resp[p].id) >= resp[p].count + 1

\* C4: the slug of a stored guide never changes, whatever is saved
C4_SlugImmutable ==
    [][ \A i \in Ids : guides'[i].slug = guides[i].slug ]_vars

\* C5: no step lowers the stored view_count or likes of a guide
C5_CountersMonotone ==
    [][ \A i \in Ids : /\ guides'[i].view_count >= guides[i].view_count
                       /\ guides'[i].likes >= guides[i].likes ]_vars

\* C6: a creation without a slug, of a title that normalizes to a non-empty
\* token, never ends in the conflict of the unique index
C6_ConflictNeverSurfaces ==
    [][ \A p \in Procs :
          (/\ pc[p] = "save_db"
           /\ pc'[p] = "idle"
           /\ op[p] = "create"
           /\ arg[p].slug = Empty
           /\ slugify(inst[p].title) # Empty)
          => resp'[p].status = "ok" ]_vars

\* C7: the write of a detail view raises the stored view_count of its guide
\* by exactly one and leaves every other row alone, and a detail request
\* that ends in NotFound leaves the table alone
C7_ViewCountsOnce ==
    [][ \A p \in Procs :
          /\ (/\ op[p] = "view"
              /\ pc[p] = "save_db"
              /\ pc'[p] = "serialize")
             => /\ guides'[inst[p].id].view_count = guides[inst[p].id].view_count + 1
                /\ \A i \in Ids \ {inst[p].id} : guides'[i] = guides[i]
          /\ (/\ Began(p)
              /\ op'[p] = "view"
              /\ resp'[p] = NotFound)
             => guides' = guides ]_vars

\* C8: a detail request finds a guide exactly when a published guide holds
\* the requested slug, and then it is that guide; for an unknown slug and
\* for the slug of an unpublished guide it ends in the one NotFound
C8_UnpublishedIsNotFound ==
    [][ (Began(1) /\ op'[1] = "view")
        => IF \E i \in Ids : guides[i].slug = arg'[1].slug /\ guides[i].is_published
           THEN /\ pc'[1] # "idle"
                /\ inst'[1].id \in Ids
                /\ guides[inst'[1].id].slug = arg'[1].slug
                /\ guides[inst'[1].id].is_published
           ELSE /\ pc'[1] = "idle"
                /\ resp'[1] = NotFound
      ]_vars

\* a detail request for the slug of an unpublished guide was answered
C8_Unpublished ==
    /\ pc[1] = "idle"
    /\ op[1] = "view"
    /\ resp[1] = NotFound
    /\ \E i \in Ids : guides[i].slug = arg[1].slug /\ ~guides[i].is_published

\* C9: the related guides of a guide leave out the guide itself, are
\* published guides of its category, and are at most 3; a detail payload
\* carries the related guides of its guide
C9_RelatedGuides ==
    /\ \A g \in Ids :
          LET r == get_related_guides(Load(g))
          IN  /\ Len(r) <= 3
              /\ \A k \in DOMAIN r :
                    /\ r[k] \in Ids
                    /\ r[k] # g
                    /\ guides[r[k]].is_published
                    /\ guides[r[k]].category = guides[g].category
    /\ \A p \in Procs :
          (pc[p] = "idle" /\ op[p] = "view" /\ resp[p].status = "ok")
          => resp[p].related = get_related_guides(Load(resp[p].id))

\* a detail payload with three related guides although more qualify
C9_MoreQualify ==
    \E p \in Procs :
       /\ pc[p] = "idle"
       /\ op[p] = "view"
       /\ resp[p].status = "ok"
       /\ Len(resp[p].related) = 3
       /\ Cardinality({ i \in Ids : /\ i # resp[p].id
                                    /\ guides[i].is_published
                                    /\ guides[i].category = guides[resp[p].id].category }) > 3

\* C10: no guide is stored with an empty slug
C10_NoEmptySlug ==
    \A i \in Ids : guides[i].slug # Empty

\* C11: a ServiceRequest is stored with status pending, and a step changes
\* the status of a stored request only along pending -> in_progress ->
\* completed or to cancelled from pending or in_progress; the status of a
\* completed or cancelled request never changes
Transitions ==
    { <<"pending", "in_progress">>, <<"in_progress", "completed">>,
      <<"pending", "cancelled">>, <<"in_progress", "cancelled">> }

C11_StatusTransitions ==
    [][ /\ \A i \in DOMAIN service_requests :
              \/ service_requests'[i].status = service_requests[i].status
              \/ <<service_requests[i].status, service_requests'[i].status>> \in Transitions
        /\ \A i \in (DOMAIN service_requests') \ (DOMAIN service_requests) :
              service_requests'[i].status = "pending" ]_vars

\* the step is slot p answering a request that came with a body
Submitted(p) ==
    /\ pc[p] = "idle"
    /\ pc'[p] = "idle"
    /\ <<op'[p], arg'[p], body'[p], resp'[p]>> # <<op[p], arg[p], body[p], resp[p]>>

\* C13: a submission whose services_needed is a list of objects that each
\* have a name and a price key is stored, as one new pending row with that
\* list; every other submission ends in the ValidationError and leaves the
\* ServiceRequest table as it was
C13_ServicesValidated ==
    [][ \A p \in Procs :
          (Submitted(p) /\ op'[p] = "submit")
          => LET v == body'[p].services_needed
             IN  IF /\ v.kind = "list"
                    /\ \A k \in DOMAIN v.items :
                          /\ v.items[k].kind = "dict"
                          /\ {"name", "price"} \subseteq v.items[k].keys
                 THEN /\ resp'[p].status = "ok"
                      /\ service_requests' =
                            Append(service_requests, [status |-> "pending", services_needed |-> v])
                 ELSE /\ resp'[p] = ValidationError
                      /\ service_requests' = service_requests ]_vars

\* [{"name", "price"}] was stored, and then [{"name"}] was rejected
C13_MissingPrice ==
    /\ pc[1] = "idle"
    /\ op[1] = "submit"
    /\ resp[1] = ValidationError
    /\ body[1].services_needed = List(<<Object({"name"})>>)
    /\ Len(service_requests) = 1
    /\ service_requests[1].services_needed = List(<<Object({"name", "price"})>>)

\* C12: a submission stores its review with is_approved, is_featured and
\* is_verified all false, whatever its body carries; the approval of a
\* stored review changes only when the administration saves it; and the
\* review list is made of exactly the approved reviews
C12_FlagsNotFromSubmitter ==
    [][ /\ \A i \in (DOMAIN reviews') \ (DOMAIN reviews) :
              /\ ~reviews'[i].is_approved
              /\ ~reviews'[i].is_featured
              /\ ~reviews'[i].is_verified
        /\ \A i \in DOMAIN reviews :
              reviews'[i].is_approved # reviews[i].is_approved
              => \E p \in Procs : /\ op[p] = "moderate"
                                  /\ pc[p] = "review_save"
                                  /\ pc'[p] = "idle"
                                  /\ review[p].id = i
        /\ \A p \in Procs :
              (Began(p) /\ op'[p] = "list")
              => /\ \A k \in DOMAIN resp'[p].related :
                       /\ resp'[p].related[k] \in DOMAIN reviews
                       /\ reviews[resp'[p].related[k]].is_approved
                 /\ \A i \in DOMAIN reviews :
                       reviews[i].is_approved
                       => \E k \in DOMAIN resp'[p].related : resp'[p].related[k] = i ]_vars

\* a review submitted with all three flags set in its body was stored
\* next to a review the administration has approved
C12_FlagsInBody ==
    /\ pc[1] = "idle"
    /\ op[1] = "review"
    /\ resp[1].status = "ok"
    /\ body[1].is_approved /\ body[1].is_featured /\ body[1].is_verified
    /\ resp[1].id = 2
    /\ Len(reviews) = 2
    /\ reviews[1].is_approved

\* C14: the write of a detail view changes no column of any guide but the
\* view_count of its own guide, and the write of a like changes no column
\* of any guide but the likes of its own guide; so neither write, made
\* from a copy read before the other, undoes the other's increment
C14_WritesOwnField ==
    [][ \A p \in Procs :
          /\ (/\ op[p] = "view"
              /\ pc[p] = "save_db"
              /\ pc'[p] = "serialize")
             => /\ guides' = [guides EXCEPT ![inst[p].id].view_count =
                                               guides'[inst[p].id].view_count]
                /\ guides'[inst[p].id].likes = guides[inst[p].id].likes
                /\ guides'[inst[p].id].slug = guides[inst[p].id].slug
                /\ guides'[inst[p].id].is_published = guides[inst[p].id].is_published
                /\ guides'[inst[p].id].publication_date = guides[inst[p].id].publication_date
          /\ (/\ op[p] = "like"
              /\ pc[p] = "save_db"
              /\ pc'[p] = "idle")
             => /\ guides' = [guides EXCEPT ![inst[p].id].likes = guides'[inst[p].id].likes]
                /\ guides'[inst[p].id].view_count = guides[inst[p].id].view_count ]_vars

\* a detail view has written its view_count while a like of the same
\* guide, holding a copy read before that write, is about to write
C14_StaleLike ==
    \E p, q \in Procs :
       /\ op[p] = "view"
       /\ pc[p] = "serialize"
       /\ op[q] = "like"
       /\ pc[q] = "save_db"
       /\ inst[q].id = inst[p].id
       /\ inst[q].view_count < guides[inst[p].id].view_count
       /\ inst[p].likes = guides[inst[p].id].likes

====
